---- MODULE Spec2Model ----
(***************************************************************************)
(* State-machine model of the DNS resolver of clash_lib                    *)
(* (src/clash_lib/src/app/dns/resolver.rs).                                *)
(*                                                                         *)
(* A task is one caller of the resolver API.  Every await on an upstream   *)
(* client is a suspension point: an API call runs until all its futures    *)
(* are pending, and is resumed by the reply of a client, by the batch      *)
(* deadline, or never.  Time is discrete, one Tick is Quantum seconds.     *)
(***************************************************************************)
EXTENDS Integers, Sequences, FiniteSets, TLC

VARIABLES
    r,        \* the Resolver built by Resolver::new, immutable
    ipv6,     \* Resolver.ipv6 (AtomicBool)
    cache,    \* Resolver.lru_cache content, oldest entry first
    fake,     \* the fake-IP engine's host -> ip table
    env,      \* what the callers and the upstream servers of this run use
    task,     \* per task: the API call in progress and its futures
    app       \* the run of start() of the library and the callers of shutdown()

vars == <<r, ipv6, cache, fake, env, task, app>>

\* ------------------------------------------------------------------------
\* Bounds and program constants
\* ------------------------------------------------------------------------
Quantum == 40        \* seconds per Tick
TTL == 60            \* cache expiry, seconds
BatchTimeout == 10   \* batch deadline, seconds
Capacity == 4096     \* cache capacity

\* the callers of a run: two where a run is about callers that share the
\* resolver, one otherwise
Tasks == IF env.api \in {"lru", "shared"} THEN {"t1", "t2"} ELSE {"t1"}

\* ------------------------------------------------------------------------
\* Option, Result
\* ------------------------------------------------------------------------
None == <<>>
Some(v) == <<v>>
IsSome(o) == Len(o) = 1
Unwrap(o) == o[1]

NoValue == [none |-> TRUE]
Ok(v) == [tag |-> "ok", val |-> v, err |-> "", by |-> "none"]
Err(e) == [tag |-> "err", val |-> NoValue, err |-> e, by |-> "none"]
ErrBy(e, c) == [tag |-> "err", val |-> NoValue, err |-> e, by |-> c]
Panic(e) == [tag |-> "panic", val |-> NoValue, err |-> e, by |-> "none"]
NoResult == [tag |-> "none", val |-> NoValue, err |-> "", by |-> "none"]

\* ------------------------------------------------------------------------
\* Addresses
\* ------------------------------------------------------------------------
V4(a, b, c, d) == [fam |-> 4, addr |-> <<a, b, c, d>>]
V6(h) == [fam |-> 6, addr |-> h]

is_unspecified(ip) == \A i \in DOMAIN ip.addr : ip.addr[i] = 0

ipCidr == V4(1, 2, 3, 4)
ipPlain == V4(93, 184, 216, 34)
ipGeo == V4(114, 114, 114, 114)
ipZero == V4(0, 0, 0, 0)
ipHost4 == V4(10, 0, 0, 7)
ip6Plain == V6(<<8193, 3512, 0, 0, 0, 0, 0, 1>>)
ip6Loop == V6(<<0, 0, 0, 0, 0, 0, 0, 1>>)
ip6Zero == V6(<<0, 0, 0, 0, 0, 0, 0, 0>>)

\* ------------------------------------------------------------------------
\* Host strings.  A host string is the sequence of its dot-separated
\* parts; a part is a string.
\* ------------------------------------------------------------------------
Octet == [x \in {"0", "1", "2", "3", "4"} |->
            CASE x = "0" -> 0 [] x = "1" -> 1 [] x = "2" -> 2
              [] x = "3" -> 3 [] x = "4" -> 4]

\* host.parse::<net::Ipv4Addr>()
ParseIpv4(host) ==
    IF Len(host) = 4 /\ \A i \in 1..4 : host[i] \in DOMAIN Octet
    THEN Ok(V4(Octet[host[1]], Octet[host[2]], Octet[host[3]], Octet[host[4]]))
    ELSE Err("invalid IPv4 address syntax")

V6Text == [x \in {"::", "::1"} |-> IF x = "::" THEN ip6Zero ELSE ip6Loop]

\* host.parse::<net::Ipv6Addr>()
ParseIpv6(host) ==
    IF Len(host) = 1 /\ host[1] \in DOMAIN V6Text
    THEN Ok(V6Text[host[1]])
    ELSE Err("invalid IPv6 address syntax")

\* ------------------------------------------------------------------------
\* Names, queries, messages
\* ------------------------------------------------------------------------
Name(labels, fqdn) == [labels |-> labels, fqdn |-> fqdn]

\* rr::Name::from_str_relaxed(host)?.append_domain(&rr::Name::root())?
\* A part with a character that no label may hold (the colon of an
\* IPv6 literal) makes the parse fail.
NameOfHost(host) ==
    IF \E i \in DOMAIN host : host[i] \in DOMAIN V6Text
    THEN Err("invalid domain")
    ELSE Ok(Name(host, TRUE))

Query(name, class, type) == [name |-> name, class |-> class, type |-> type]

\* A request is its question section; a response also has the answer
\* section and, for the properties, the client that produced it.
Request(queries) == [queries |-> queries, answers |-> <<>>, from |-> "none"]
Response(req, answers, c) == [queries |-> req.queries, answers |-> answers, from |-> c]

\* op::Message::query(): the first question, if any
query(m) == IF Len(m.queries) = 0 THEN None ELSE Some(m.queries[1])

\* Query's Display, the cache key: "{name} {class} {type}"; the name is
\* printed as it is stored, with its trailing dot when it is a FQDN.
to_string(q) == <<q.name.labels, q.name.fqdn, q.class, q.type>>

\* q.name().to_ascii().starts_with("_acme-challenge.")
starts_with_acme(name) ==
    /\ Len(name.labels) >= 1
    /\ name.labels[1] = "_acme-challenge"
    /\ (Len(name.labels) > 1 \/ name.fqdn)

\* a record of the answer section: its type, its address (A and AAAA) and
\* its TTL in seconds
RecA(ip) == [rtype |-> "A", ip |-> ip, ttl |-> 300]
RecAAAA(ip) == [rtype |-> "AAAA", ip |-> ip, ttl |-> 300]
RecCNAME == [rtype |-> "CNAME", ip |-> ipZero, ttl |-> 300]
WithTtl(rec, ttl) == [rec EXCEPT !.ttl = ttl]

\* ip_list_of_message: the addresses of the A and AAAA records of the
\* answer section, in order
RECURSIVE ip_list_of_answers(_)
ip_list_of_answers(answers) ==
    IF answers = <<>> THEN <<>>
    ELSE LET rec == Head(answers)
             rest == ip_list_of_answers(Tail(answers))
         IN  IF rec.rtype = "A" \/ rec.rtype = "AAAA"
             THEN <<rec.ip>> \o rest
             ELSE rest

ip_list_of_message(m) == ip_list_of_answers(m.answers)

is_ip_request(q) ==
    q.class = "IN" /\ (q.type = "A" \/ q.type = "AAAA")

\* to_ascii().trim_matches('.'): the labels without the trailing dot
domain_name_of_message(m) ==
    IF IsSome(query(m)) THEN Some(Unwrap(query(m)).name.labels) ELSE None

\* ------------------------------------------------------------------------
\* Configuration and construction
\* ------------------------------------------------------------------------
dnsGoogle == <<"dns", "google">>
baiduCn == <<"baidu", "cn">>
aTest == <<"a", "test">>
ATest == <<"A", "test">>
acmeTest == <<"_acme-challenge", "a", "test">>
h4Lan == <<"h4", "lan">>
h6Lan == <<"h6", "lan">>
xLocal == <<"x", "local">>
lit4 == <<"1", "2", "3", "4">>
lit4Zero == <<"0", "0", "0", "0">>
lit6 == <<"::1">>

Cidr24 == [prefix |-> <<1, 2, 3>>]

\* the MMDB country of an address
Country(ip) == IF ip = ipGeo THEN "CN" ELSE "US"

BaseConfig ==
    [ ipv6 |-> FALSE,
      nameserver |-> <<"m1", "m2">>,
      fallback |-> <<>>,
      domain |-> {},
      ip_cidr |-> None,
      geo_ip |-> FALSE,
      geo_ip_code |-> "CN",
      nameserver_policy |-> {},
      hosts |-> None,
      enhance_mode |-> "off",
      fake_ip_filter |-> {} ]

\* trie::StringTrie::search, on the exact patterns the configurations use
TrieSearch(trie, key) ==
    IF key \in DOMAIN trie THEN Some(trie[key]) ELSE None

GeoIPFilter(code) == [kind |-> "geoip", code |-> code, net |-> Cidr24]
IPNetFilter(net) == [kind |-> "cidr", code |-> "", net |-> net]

\* FallbackIPFilter::apply
IPFilterApply(f, ip) ==
    IF f.kind = "geoip"
    THEN Country(ip) = f.code
    ELSE /\ ip.fam = 4
         /\ \A i \in DOMAIN f.net.prefix : ip.addr[i] = f.net.prefix[i]

\* FallbackDomainFilter::apply (DomainFilter: a trie of the domains)
DomainFilterApply(f, domain) == domain \in f

\* Resolver::new for an enabled DNS configuration (lru_cache: whether the
\* resolver has a cache)
New(cfg) ==
    [ hosts |-> cfg.hosts,
      main |-> cfg.nameserver,
      fallback |-> IF Len(cfg.fallback) > 0 THEN Some(cfg.fallback) ELSE None,
      fallback_domain_filters |->
          IF Cardinality(cfg.domain) > 0 THEN Some(<<cfg.domain>>) ELSE None,
      fallback_ip_filters |->
          IF IsSome(cfg.ip_cidr) \/ cfg.geo_ip
          THEN Some(<<GeoIPFilter(cfg.geo_ip_code)>> \o
                    (IF IsSome(cfg.ip_cidr)
                     THEN [i \in DOMAIN Unwrap(cfg.ip_cidr) |->
                              IPNetFilter(Unwrap(cfg.ip_cidr)[i])]
                     ELSE <<>>))
          ELSE None,
      lru_cache |-> TRUE,
      policy |->
          IF Cardinality(cfg.nameserver_policy) > 0
          THEN Some([d \in {e.domain : e \in cfg.nameserver_policy} |->
                       <<(CHOOSE e \in cfg.nameserver_policy : e.domain = d).ns>>])
          ELSE None,
      fake_dns |->
          IF cfg.enhance_mode = "fake-ip"
          THEN Some([skipped_hostnames |-> cfg.fake_ip_filter])
          ELSE None ]

\* the bootstrap resolver that Resolver::new builds (as new_default does):
\* main clients only, no cache
NewDefault(cfg) ==
    [ hosts |-> None,
      main |-> cfg.nameserver,
      fallback |-> None,
      fallback_domain_filters |-> None,
      fallback_ip_filters |-> None,
      lru_cache |-> FALSE,
      policy |-> None,
      fake_dns |-> None ]

Range(s) == {s[i] : i \in DOMAIN s}

\* ------------------------------------------------------------------------
\* Routing helpers of the resolver
\* ------------------------------------------------------------------------
match_policy(m) ==
    IF /\ IsSome(r.fallback)
       /\ IsSome(r.fallback_domain_filters)
       /\ IsSome(r.policy)
       /\ IsSome(domain_name_of_message(m))
    THEN TrieSearch(Unwrap(r.policy), Unwrap(domain_name_of_message(m)))
    ELSE None

\* a variant that applies the filters to nothing: it never matches
should_only_query_fallback_unfiltered(m) ==
    /\ IsSome(r.fallback)
    /\ IsSome(r.fallback_domain_filters)
    /\ IsSome(domain_name_of_message(m))
    /\ \E i \in DOMAIN Unwrap(r.fallback_domain_filters) :
          DomainFilterApply(Unwrap(r.fallback_domain_filters)[i], <<>>)

should_only_query_fallback(m) ==
    /\ IsSome(r.fallback)
    /\ IsSome(r.fallback_domain_filters)
    /\ IsSome(domain_name_of_message(m))
    /\ \E i \in DOMAIN Unwrap(r.fallback_domain_filters) :
          DomainFilterApply(Unwrap(r.fallback_domain_filters)[i],
                            Unwrap(domain_name_of_message(m)))

should_ip_fallback(ip) ==
    /\ IsSome(r.fallback_ip_filters)
    /\ \E i \in DOMAIN Unwrap(r.fallback_ip_filters) :
          IPFilterApply(Unwrap(r.fallback_ip_filters)[i], ip)

\* ------------------------------------------------------------------------
\* lru_time_cache::LruCache<String, op::Message>
\* ------------------------------------------------------------------------
Min(a, b) == IF a < b THEN a ELSE b

\* a variant that lets an entry live no longer than the TTLs of its answer
expired_min_ttl(e) ==
    e.age >= Min(TTL, IF e.value.answers = <<>> THEN 0
                      ELSE CHOOSE s \in {a.ttl : a \in {e.value.answers[i] :
                                                         i \in DOMAIN e.value.answers}} :
                               \A a \in {e.value.answers[i] : i \in DOMAIN e.value.answers} :
                                   s <= a.ttl)

expired(e) == e.age >= TTL

\* a variant with the expiry test inverted
peek_expired(c, key) ==
    IF \E i \in DOMAIN c : c[i].key = key /\ expired(c[i])
    THEN Some(c[CHOOSE i \in DOMAIN c : c[i].key = key /\ expired(c[i])].value)
    ELSE None

\* LruCache::peek: the value of a present, unexpired key; no reordering
peek(c, key) ==
    IF \E i \in DOMAIN c : c[i].key = key /\ ~expired(c[i])
    THEN Some(c[CHOOSE i \in DOMAIN c : c[i].key = key /\ ~expired(c[i])].value)
    ELSE None

\* a variant that keeps the unexpired entry a key already has
insert_first_writer(c, key, value) ==
    LET live(e) == ~expired(e)
        kept == SelectSeq(c, live)
        room == IF Len(kept) >= Capacity THEN Tail(kept) ELSE kept
    IN  IF \E i \in DOMAIN kept : kept[i].key = key
        THEN kept
        ELSE Append(room, [key |-> key, value |-> value, age |-> 0])

\* LruCache::insert: drop the expired entries and the old entry of the
\* key, evict the oldest entry at capacity, append the new entry
insert(c, key, value) ==
    LET live(e) == ~expired(e) /\ e.key # key
        kept == SelectSeq(c, live)
        room == IF Len(kept) >= Capacity THEN Tail(kept) ELSE kept
    IN  Append(room, [key |-> key, value |-> value, age |-> 0])

\* ------------------------------------------------------------------------
\* The fake-IP engine (fakeip::FakeDns)
\* ------------------------------------------------------------------------
fake_ip_enabled == IsSome(r.fake_dns)

should_skip(host) == host \in Unwrap(r.fake_dns).skipped_hostnames

IndexOf(s, x) == CHOOSE i \in DOMAIN s : s[i] = x

\* the table after lookup(host): a new host takes the next free address
fake_after_lookup(f, host) ==
    IF host \in Range(f) THEN f ELSE Append(f, host)

\* lookup(host): addresses are handed out from network + 2 of 198.18.0.0/16
fake_lookup(f, host) ==
    V4(198, 18, 0, 1 + IndexOf(fake_after_lookup(f, host), host))

\* reverse_lookup(ip) of the engine: the host that was given ip, if any
fake_reverse_lookup(f, ip) ==
    IF /\ ip.fam = 4
       /\ <<ip.addr[1], ip.addr[2], ip.addr[3]>> = <<198, 18, 0>>
       /\ (ip.addr[4] - 1) \in DOMAIN f
    THEN Some(f[ip.addr[4] - 1])
    ELSE None

\* ClashResolver::reverse_lookup
reverse_lookup(ip) ==
    IF ~fake_ip_enabled THEN None ELSE fake_reverse_lookup(fake, ip)

\* ------------------------------------------------------------------------
\* Futures.  A future is one resolve_v4, resolve_v6 or exchange call.  The
\* operators below take and return a context: the future together with
\* the shared state it reads and writes and the record of what it did.
\* Of a future's batches the record keeps: failed, the clients of the
\* current batch that returned an error, in order; batchRes, what the
\* last batch returned; returned, the number of batches that returned;
\* exchanged, what Resolver::exchange returned to the future; held, the
\* guards the future holds: of the cache's RwLock ("cache") and of the
\* fake-IP engine's ("fake").
\* ------------------------------------------------------------------------
IdleFut ==
    [ kind |-> "none", st |-> "idle", msg |-> Request(<<>>),
      stage |-> "none", pending |-> {}, elapsed |-> 0,
      res |-> NoResult, mainRes |-> NoResult, fallbackRes |-> NoResult,
      failed |-> <<>>, batchRes |-> NoResult, returned |-> 0,
      exchanged |-> NoResult, held |-> {} ]

NewFut(kind) == [IdleFut EXCEPT !.kind = kind]

Touch(c, what) == [c EXCEPT !.touched = @ \cup {what}]

\* read().await or write().await of a lock, and the drop of its guard
Lock(c, l) == [c EXCEPT !.fut.held = @ \cup {l}]
Unlock(c, l) == [c EXCEPT !.fut.held = @ \ {l}]

Finish(c, res) ==
    [c EXCEPT !.fut.st = "done", !.fut.pending = {}, !.fut.res = res]

\* result.choose(&mut rand::thread_rng()).unwrap(), pick is the random draw
Choose(list, pick) == list[((pick - 1) % Len(list)) + 1]

\* a variant that takes an answer without addresses for the unspecified
\* address
lookup_ip_ready_unspecified(rv) ==
    IF rv.tag = "ok"
    THEN IF ip_list_of_message(rv.val) # <<>>
         THEN Ok(ip_list_of_message(rv.val))
         ELSE Ok(<<ipZero>>)
    ELSE rv

\* lookup_ip after self.exchange(m).await
lookup_ip_ready(rv) ==
    IF rv.tag = "ok"
    THEN IF ip_list_of_message(rv.val) # <<>>
         THEN Ok(ip_list_of_message(rv.val))
         ELSE Err("no record for hostname")
    ELSE rv

\* resolve_v4 and resolve_v6 after self.lookup_ip(host, ..).await
resolve_family_ready(fam, rv, pick) ==
    IF rv.tag = "ok"
    THEN IF Choose(rv.val, pick).fam = fam
         THEN Ok(Some(Choose(rv.val, pick)))
         ELSE Panic("invalid IP family")
    ELSE rv

\* the caller of exchange resumes: the API call itself, or lookup_ip
exchange_ready(c, rv, pick) ==
    LET x == [c EXCEPT !.fut.exchanged = rv]
    IN  CASE c.fut.kind = "v4" ->
                Finish(x, resolve_family_ready(4, lookup_ip_ready(rv), pick))
          [] c.fut.kind = "v6" ->
                Finish(x, resolve_family_ready(6, lookup_ip_ready(rv), pick))
          [] OTHER -> Finish(x, rv)

\* a variant that compares the whole name instead of its prefix
do_not_cache_whole_name(q) ==
    q.type = "TXT" /\ q.name = Name(<<"_acme-challenge">>, TRUE)

\* the do-not-cache rule of exchange_no_cache
do_not_cache(q) == q.type = "TXT" /\ starts_with_acme(q.name)

\* exchange_no_cache after query.await
\* a variant that caches an empty answer when the batch failed
exchange_no_cache_ready_any(c, rv, pick) ==
    LET q == Unwrap(query(c.fut.msg))
        value == IF rv.tag = "ok" THEN rv.val ELSE Response(c.fut.msg, <<>>, "")
    IN  IF r.lru_cache /\ ~do_not_cache(q)
        THEN exchange_ready(
                 Unlock(Touch([Lock(c, "cache") EXCEPT
                                  !.cache = insert(@, to_string(q), value)], "cache"),
                        "cache"),
                 rv, pick)
        ELSE exchange_ready(c, rv, pick)

exchange_no_cache_ready(c, rv, pick) ==
    LET q == Unwrap(query(c.fut.msg))
    IN  IF rv.tag = "ok" /\ r.lru_cache /\ ~do_not_cache(q)
        THEN exchange_ready(
                 Unlock(Touch([Lock(c, "cache") EXCEPT
                                  !.cache = insert(@, to_string(q), rv.val)], "cache"),
                        "cache"),
                 rv, pick)
        ELSE exchange_ready(c, rv, pick)

\* batch_exchange up to its select!: every client is sent the message
\* and the deadline is armed
batch_exchange(c, clients, stage) ==
    [c EXCEPT !.fut.st = "batch", !.fut.stage = stage,
              !.fut.pending = Range(clients), !.fut.elapsed = 0,
              !.fut.failed = <<>>,
              !.calls = @ \cup {[client |-> x, msg |-> c.fut.msg] : x \in Range(clients)},
              !.touched = @ \cup {"upstream"}]

\* ip_exchange after main_query.await
ip_exchange_main_ready(c, main_result, pick) ==
    IF /\ main_result.tag = "ok"
       /\ ip_list_of_message(main_result.val) # <<>>
       /\ ~should_ip_fallback(ip_list_of_message(main_result.val)[1])
    THEN exchange_no_cache_ready(c, main_result, pick)
    ELSE batch_exchange(c, Unwrap(r.fallback), "fallback")

\* the batch of c.fut returns rv
Returned(c, rv) == [c EXCEPT !.fut.batchRes = rv, !.fut.returned = @ + 1]

\* a variant that keeps main's answer after the fallback batch
batch_exchange_ready_keep_main(c, rv, pick) ==
    IF c.fut.stage = "main_then_fallback"
    THEN ip_exchange_main_ready([Returned(c, rv) EXCEPT !.fut.mainRes = rv], rv, pick)
    ELSE IF c.fut.stage = "fallback"
    THEN exchange_no_cache_ready(
             [Returned(c, rv) EXCEPT !.fut.fallbackRes = rv],
             IF c.fut.mainRes.tag = "ok" THEN c.fut.mainRes ELSE rv, pick)
    ELSE exchange_no_cache_ready(Returned(c, rv), rv, pick)

\* a batch_exchange call returns rv to ip_exchange or exchange_no_cache
\* (mainRes and fallbackRes keep what the two batches of ip_exchange returned)
batch_exchange_ready(c, rv, pick) ==
    IF c.fut.stage = "main_then_fallback"
    THEN ip_exchange_main_ready([Returned(c, rv) EXCEPT !.fut.mainRes = rv], rv, pick)
    ELSE IF c.fut.stage = "fallback"
    THEN exchange_no_cache_ready([Returned(c, rv) EXCEPT !.fut.fallbackRes = rv], rv, pick)
    ELSE exchange_no_cache_ready(Returned(c, rv), rv, pick)

ip_exchange(c) ==
    IF IsSome(match_policy(c.fut.msg))
    THEN batch_exchange(c, Unwrap(match_policy(c.fut.msg)), "policy")
    ELSE IF should_only_query_fallback(c.fut.msg)
    THEN batch_exchange(c, Unwrap(r.fallback), "fallback_only")
    ELSE IF ~IsSome(r.fallback)
    THEN batch_exchange(c, r.main, "main")
    ELSE batch_exchange(c, r.main, "main_then_fallback")

exchange_no_cache(c) ==
    IF is_ip_request(Unwrap(query(c.fut.msg)))
    THEN ip_exchange(c)
    ELSE IF IsSome(match_policy(c.fut.msg))
    THEN batch_exchange(c, Unwrap(match_policy(c.fut.msg)), "policy")
    ELSE batch_exchange(c, r.main, "main")

\* Resolver::exchange up to its first suspension
exchange(c, pick) ==
    IF IsSome(query(c.fut.msg))
    THEN IF r.lru_cache
         THEN IF IsSome(peek(c.cache, to_string(Unwrap(query(c.fut.msg)))))
              THEN exchange_ready(
                       Unlock(Touch(Lock(c, "cache"), "cache"), "cache"),
                       Ok(Unwrap(peek(c.cache, to_string(Unwrap(query(c.fut.msg)))))),
                       pick)
              ELSE exchange_no_cache(Unlock(Touch(Lock(c, "cache"), "cache"), "cache"))
         ELSE exchange_no_cache(c)
    ELSE exchange_ready(c, Err("invalid query"), pick)

lookup_ip(c, host, record_type, pick) ==
    IF NameOfHost(host).tag = "ok"
    THEN exchange([c EXCEPT !.fut.msg =
                      Request(<<Query(NameOfHost(host).val, "IN", record_type)>>)],
                  pick)
    ELSE Finish(c, Err("invalid domain"))

\* the hosts step of resolve_v4 and resolve_v6
hosts_match(host, enhanced) ==
    enhanced /\ IsSome(r.hosts) /\ IsSome(TrieSearch(Unwrap(r.hosts), host))

hosts_step(c, host, fam) ==
    IF Unwrap(TrieSearch(Unwrap(r.hosts), host)).fam = fam
    THEN Finish(Touch(c, "hosts"), Ok(TrieSearch(Unwrap(r.hosts), host)))
    ELSE Finish(Touch(c, "hosts"), Panic("invalid IP family"))

TouchHosts(c, enhanced) ==
    IF enhanced /\ IsSome(r.hosts) THEN Touch(c, "hosts") ELSE c

\* a variant whose fake-IP step does not record the address it returns
resolve_v4_fake_unrecorded(c, host, enhanced, pick) ==
    IF hosts_match(host, enhanced)
    THEN hosts_step(c, host, 4)
    ELSE IF ParseIpv4(host).tag = "ok"
    THEN Finish(TouchHosts(c, enhanced), Ok(Some(ParseIpv4(host).val)))
    ELSE IF enhanced /\ fake_ip_enabled /\ ~should_skip(host)
    THEN Finish(Touch(TouchHosts(c, enhanced), "fake"),
                Ok(Some(fake_lookup(c.fake, host))))
    ELSE lookup_ip(IF enhanced /\ fake_ip_enabled
                   THEN Touch(TouchHosts(c, enhanced), "fake")
                   ELSE TouchHosts(c, enhanced),
                   host, "A", pick)

\* a variant whose guard of the fake-IP engine lives to the end of the
\* function
resolve_v4_guard_kept(c, host, enhanced, pick) ==
    IF hosts_match(host, enhanced)
    THEN hosts_step(c, host, 4)
    ELSE IF ParseIpv4(host).tag = "ok"
    THEN Finish(TouchHosts(c, enhanced), Ok(Some(ParseIpv4(host).val)))
    ELSE IF enhanced /\ fake_ip_enabled /\ ~should_skip(host)
    THEN Finish(Unlock(Touch([Lock(TouchHosts(c, enhanced), "fake") EXCEPT
                                 !.fake = fake_after_lookup(@, host)], "fake"),
                       "fake"),
                Ok(Some(fake_lookup(c.fake, host))))
    ELSE lookup_ip(IF enhanced /\ fake_ip_enabled
                   THEN Touch(Lock(TouchHosts(c, enhanced), "fake"), "fake")
                   ELSE TouchHosts(c, enhanced),
                   host, "A", pick)

\* (the guard of the fake-IP engine is a local of the block of the fake-IP
\* step: it is dropped when the block is left, by return or at its end)
resolve_v4(c, host, enhanced, pick) ==
    IF hosts_match(host, enhanced)
    THEN hosts_step(c, host, 4)
    ELSE IF ParseIpv4(host).tag = "ok"
    THEN Finish(TouchHosts(c, enhanced), Ok(Some(ParseIpv4(host).val)))
    ELSE IF enhanced /\ fake_ip_enabled /\ ~should_skip(host)
    THEN Finish(Unlock(Touch([Lock(TouchHosts(c, enhanced), "fake") EXCEPT
                                 !.fake = fake_after_lookup(@, host)], "fake"),
                       "fake"),
                Ok(Some(fake_lookup(c.fake, host))))
    ELSE lookup_ip(IF enhanced /\ fake_ip_enabled
                   THEN Unlock(Touch(Lock(TouchHosts(c, enhanced), "fake"), "fake"),
                               "fake")
                   ELSE TouchHosts(c, enhanced),
                   host, "A", pick)

\* a variant that tests the flag after the hosts and literal steps
resolve_v6_flag_last(c, host, enhanced, pick) ==
    IF hosts_match(host, enhanced)
    THEN hosts_step(c, host, 6)
    ELSE IF ParseIpv6(host).tag = "ok"
    THEN Finish(TouchHosts(c, enhanced), Ok(Some(ParseIpv6(host).val)))
    ELSE IF ~c.ipv6
    THEN Finish(TouchHosts(c, enhanced), Err("ipv6 disabled"))
    ELSE lookup_ip(TouchHosts(c, enhanced), host, "AAAA", pick)

resolve_v6(c, host, enhanced, pick) ==
    IF ~c.ipv6
    THEN Finish(c, Err("ipv6 disabled"))
    ELSE IF hosts_match(host, enhanced)
    THEN hosts_step(c, host, 6)
    ELSE IF ParseIpv6(host).tag = "ok"
    THEN Finish(TouchHosts(c, enhanced), Ok(Some(ParseIpv6(host).val)))
    ELSE lookup_ip(TouchHosts(c, enhanced), host, "AAAA", pick)

\* ------------------------------------------------------------------------
\* Tasks
\* ------------------------------------------------------------------------
IdleTask ==
    [ pc |-> "idle", op |-> "none", host |-> <<>>, enhanced |-> FALSE,
      msg |-> Request(<<>>), futs |-> <<IdleFut, IdleFut>>, ip |-> None,
      res |-> NoResult, calls |-> {}, touched |-> {}, since |-> 0, fetched |-> TTL ]

StartTask(op, host, enhanced, msg, futs) ==
    [IdleTask EXCEPT !.pc = "running", !.op = op, !.host = host,
                     !.enhanced = enhanced, !.msg = msg, !.futs = futs]

\* (since: seconds since the task's last call returned; fetched: seconds
\* since a call of the task last returned a message it got from upstream;
\* both stop at TTL)
\* the context of future f of task record tk over the shared state
\* (ipv6: what a load of the flag returns when the future is polled)
Ctx(tk, f, c, k) ==
    [fut |-> f, cache |-> c, fake |-> k, ipv6 |-> ipv6,
     calls |-> tk.calls, touched |-> tk.touched]

\* a variant that leaves the calls of a dropped future outstanding
Drop_keep_calls(f) ==
    IF f.st = "batch" THEN [f EXCEPT !.st = "dropped"] ELSE f

\* dropping a future cancels the calls it is waiting for
Drop(f) ==
    IF f.st = "batch" THEN [f EXCEPT !.st = "dropped", !.pending = {}] ELSE f

Gone(f) == f.kind = "none" \/ f.st = "done"

\* a variant in which the first future to complete decides the call
Settle_first_completion(tk, s, c) ==
    LET o == 3 - s
        base == [tk EXCEPT !.futs[s] = c.fut, !.calls = c.calls, !.touched = c.touched]
    IN  IF c.fut.st # "done"
        THEN base
        ELSE [base EXCEPT !.pc = "done", !.res = c.fut.res, !.since = 0,
                          !.fetched = IF c.calls # {} /\ c.fut.res.tag = "ok" THEN 0 ELSE @,
                          !.futs[o] = Drop(@)]

\* The API call of task record tk after its future s was polled and left
\* context c.  select_ok (and a plain await, where the other slot is
\* empty): the first Ok is the result and drops the other future, an Err
\* is the result only when no other future is left, a panic unwinds.
Settle(tk, s, c) ==
    LET o == 3 - s
        base == [tk EXCEPT !.futs[s] = c.fut, !.calls = c.calls, !.touched = c.touched]
    IN  IF c.fut.st # "done"
        THEN base
        ELSE IF c.fut.res.tag = "err" /\ ~Gone(base.futs[o])
        THEN base
        ELSE [base EXCEPT !.pc = "done", !.res = c.fut.res, !.since = 0,
                          !.fetched = IF c.calls # {} /\ c.fut.res.tag = "ok" THEN 0 ELSE @,
                          !.futs[o] = Drop(@)]

Outcome(tk, c) == [task |-> tk, cache |-> c.cache, fake |-> c.fake]

\* the true branch of resolve up to its first suspension: select_ok polls
\* resolve_v6, whose load of the flag returns seen, and then resolve_v4
resolve_both(seen, host, enhanced, pick) ==
    LET tk0 == StartTask("resolve", host, enhanced, Request(<<>>),
                         <<NewFut("v6"), NewFut("v4")>>)
        c1 == resolve_v6([Ctx(tk0, tk0.futs[1], cache, fake) EXCEPT !.ipv6 = seen],
                         host, enhanced, pick)
        tk1 == Settle(tk0, 1, c1)
        c2 == resolve_v4(Ctx(tk1, tk1.futs[2], c1.cache, c1.fake), host, enhanced, pick)
    IN  IF tk1.pc = "done"
        THEN Outcome(tk1, c1)
        ELSE Outcome(Settle(tk1, 2, c2), c2)

\* Resolver::resolve up to its first suspension
resolve(host, enhanced, pick) ==
    IF ipv6
    THEN resolve_both(ipv6, host, enhanced, pick)
    ELSE LET tk0 == StartTask("resolve", host, enhanced, Request(<<>>),
                              <<IdleFut, NewFut("v4")>>)
             c2 == resolve_v4(Ctx(tk0, tk0.futs[2], cache, fake), host, enhanced, pick)
         IN  Outcome(Settle(tk0, 2, c2), c2)

Apply(t, out) ==
    /\ task' = [task EXCEPT ![t] = out.task]
    /\ cache' = out.cache
    /\ fake' = out.fake
    /\ UNCHANGED <<r, ipv6, env, app>>

CanStart(t) == task[t].pc \in {"idle", "done"}

\* the random draws that can differ on lists no longer than n
Picks(n) == 1..(IF n > 1 THEN n ELSE 1)

Longest(lens) == IF lens = {} THEN 0 ELSE CHOOSE n \in lens : \A k \in lens : k <= n

\* a call that starts can draw only from an answer it finds in the cache
CachePicks ==
    Picks(Longest({Len(ip_list_of_message(cache[i].value)) : i \in DOMAIN cache}))

\* ------------------------------------------------------------------------
\* The library's start() and shutdown() (src/clash_lib/src/lib.rs)
\* ------------------------------------------------------------------------
Threads == {"s1", "s2"}

\* a thread that may call shutdown(): ok is what its last call returned,
\* running whether start() was awaiting its tasks when that call began
IdleThread == [pc |-> "idle", ok |-> FALSE, running |-> FALSE]

\* pc: where start_async is; controller: RUNTIME_CONTROLLER is set; chan:
\* messages in the shutdown channel; rx: the state of shutdown_rx; runner:
\* the TUN or API runner, if configured; ctrl_c: the signal has arrived;
\* received: the shutdown runner took a message
IdleApp ==
    [ pc |-> "idle", res |-> NoResult, controller |-> FALSE,
      chan |-> 0, rx |-> "none", runner |-> "none", ctrl_c |-> FALSE,
      received |-> FALSE, sd |-> [th \in Threads |-> IdleThread] ]

ChannelCapacity == 1

Resolvers == <<r, ipv6, cache, fake, env, task>>

\* start_async creates the channel and sets RUNTIME_CONTROLLER
StartAsync ==
    /\ app.pc = "idle"
    /\ app' = [app EXCEPT !.pc = "init", !.controller = TRUE, !.rx = "alive"]
    /\ UNCHANGED Resolvers

\* one of the fallible steps of the set-up returns its error with `?`
InitFails ==
    /\ app.pc = "init"
    /\ app' = [app EXCEPT !.pc = "returned", !.res = Err("invalid config"),
                          !.rx = "dropped"]
    /\ UNCHANGED Resolvers

\* the set-up is done: the runners and tasks are built and awaited
AwaitTasks(has_runner) ==
    /\ app.pc = "init"
    /\ app' = [app EXCEPT !.pc = "running",
                          !.runner = IF has_runner THEN "running" ELSE "none"]
    /\ UNCHANGED Resolvers

\* the TUN or API runner terminates, with Ok(()) or with an error
RunnerEnds(ok) ==
    /\ app.pc = "running" /\ app.runner = "running"
    /\ app' = [app EXCEPT !.runner = IF ok THEN "ended" ELSE "failed"]
    /\ UNCHANGED Resolvers

\* Ctrl-C arrives
CtrlC ==
    /\ app.pc = "running" /\ ~app.ctrl_c
    /\ app' = [app EXCEPT !.ctrl_c = TRUE]
    /\ UNCHANGED Resolvers

\* a sender that waits for room in the channel gets the room recv() frees
\* and its send succeeds
HandOver(sd) ==
    IF \E th \in Threads : sd[th].pc = "blocked"
    THEN [sd EXCEPT ![CHOOSE th \in Threads : sd[th].pc = "blocked"] =
                       [@ EXCEPT !.pc = "done", !.ok = TRUE]]
    ELSE sd

\* what select_all(tasks) returns: select_all takes the first future that
\* is ready, in the order runners (TUN or API runner, then the shutdown
\* runner), then Ctrl-C.  The receiver is dropped as start_async returns:
\* a sender that waits for room either got the room recv() freed before
\* (handed) or finds the channel closed
Returns(handed) ==
    IF app.runner \in {"ended", "failed"}
    THEN [app EXCEPT !.pc = "returned", !.rx = "dropped",
                     !.res = IF app.runner = "ended" THEN Ok(NoValue)
                             ELSE Err("runner error")]
    ELSE IF app.chan > 0
    THEN [app EXCEPT !.pc = "returned", !.rx = "dropped", !.res = Ok(NoValue),
                     !.received = TRUE,
                     !.chan = IF handed /\ HandOver(app.sd) # app.sd THEN @ ELSE @ - 1,
                     !.sd = IF handed THEN HandOver(@) ELSE @]
    ELSE [app EXCEPT !.pc = "returned", !.rx = "dropped", !.res = Ok(NoValue)]

\* a variant of the next action that needs no future to be ready
Poll_without_cause ==
    /\ app.pc = "running"
    /\ \E handed \in BOOLEAN : app' = Returns(handed)
    /\ UNCHANGED Resolvers

\* the runtime polls start_async after one of its futures became ready
Poll ==
    /\ app.pc = "running"
    /\ app.runner \in {"ended", "failed"} \/ app.chan > 0 \/ app.ctrl_c
    /\ \E handed \in BOOLEAN : app' = Returns(handed)
    /\ UNCHANGED Resolvers

\* thread th calls shutdown(): it takes the controller's lock and sends
Shutdown(th) ==
    /\ app.controller
    /\ app.sd[th].pc # "blocked"
    /\ \A o \in Threads : app.sd[o].pc # "blocked"
    /\ LET call == [IdleThread EXCEPT !.running = (app.pc = "running")]
       IN  app' = IF app.rx = "dropped"
                  THEN [app EXCEPT !.sd[th] = [call EXCEPT !.pc = "done"]]
                  ELSE IF app.chan < ChannelCapacity
                  THEN [app EXCEPT !.chan = @ + 1,
                                   !.sd[th] = [call EXCEPT !.pc = "done", !.ok = TRUE]]
                  ELSE [app EXCEPT !.sd[th] = [call EXCEPT !.pc = "blocked"]]
    /\ UNCHANGED Resolvers

\* blocking_send of thread th fails: the receiver is gone
SendFails(th) ==
    /\ app.sd[th].pc = "blocked" /\ app.rx = "dropped"
    /\ app' = [app EXCEPT !.sd[th].pc = "done"]
    /\ UNCHANGED Resolvers

\* ------------------------------------------------------------------------
\* Actions
\* ------------------------------------------------------------------------
\* a caller invokes ClashResolver::exchange(message)
Exchange(t, m) ==
    /\ CanStart(t)
    /\ LET tk0 == [StartTask("exchange", <<>>, FALSE, m,
                              <<[NewFut("exchange") EXCEPT !.msg = m], IdleFut>>)
                     EXCEPT !.fetched = task[t].fetched]
           c == exchange(Ctx(tk0, tk0.futs[1], cache, fake), 1)
       IN  Apply(t, Outcome(Settle(tk0, 1, c), c))

\* a caller invokes ClashResolver::resolve(host, enhanced)
Resolve(t, host, enhanced) ==
    /\ CanStart(t)
    /\ \E pick \in CachePicks : Apply(t, resolve(host, enhanced, pick))

\* resolve(host, enhanced) of task t on a runtime with several threads,
\* where set_ipv6(false) of another thread comes between the load of the
\* flag in resolve and the load in resolve_v6
ResolveAcrossSetIpv6(t, host, enhanced) ==
    /\ CanStart(t)
    /\ ipv6
    /\ \E pick \in CachePicks :
          LET out == resolve_both(FALSE, host, enhanced, pick)
          IN  /\ task' = [task EXCEPT ![t] = out.task]
              /\ cache' = out.cache
              /\ fake' = out.fake
    /\ ipv6' = FALSE
    /\ UNCHANGED <<r, env, app>>

\* a caller invokes ClashResolver::resolve_v4(host, enhanced)
ResolveV4(t, host, enhanced) ==
    /\ CanStart(t)
    /\ \E pick \in CachePicks :
          LET tk0 == StartTask("resolve_v4", host, enhanced, Request(<<>>),
                               <<IdleFut, NewFut("v4")>>)
              c == resolve_v4(Ctx(tk0, tk0.futs[2], cache, fake), host, enhanced, pick)
          IN  Apply(t, Outcome(Settle(tk0, 2, c), c))

\* a caller invokes ClashResolver::resolve_v6(host, enhanced)
ResolveV6(t, host, enhanced) ==
    /\ CanStart(t)
    /\ \E pick \in CachePicks :
          LET tk0 == StartTask("resolve_v6", host, enhanced, Request(<<>>),
                               <<NewFut("v6"), IdleFut>>)
              c == resolve_v6(Ctx(tk0, tk0.futs[1], cache, fake), host, enhanced, pick)
          IN  Apply(t, Outcome(Settle(tk0, 1, c), c))

\* a caller invokes ClashResolver::reverse_lookup(ip)
ReverseLookup(t, ip) ==
    /\ CanStart(t)
    /\ task' = [task EXCEPT ![t] =
                   [StartTask("reverse_lookup", <<>>, FALSE, Request(<<>>),
                              <<IdleFut, IdleFut>>)
                       EXCEPT !.pc = "done", !.ip = Some(ip),
                              !.res = Ok(reverse_lookup(ip)),
                              !.touched = IF fake_ip_enabled THEN {"fake"} ELSE {}]]
    /\ UNCHANGED <<r, ipv6, cache, fake, env, app>>

\* ClashResolver::set_ipv6(enable)
SetIpv6(enable) ==
    /\ ipv6 # enable
    /\ ipv6' = enable
    /\ UNCHANGED <<r, cache, fake, env, task, app>>

\* client cl answers the call of future s of task t
ClientOk(t, s, cl, answers) ==
    /\ task[t].pc = "running"
    /\ task[t].futs[s].st = "batch"
    /\ cl \in task[t].futs[s].pending
    /\ \E pick \in Picks(Len(ip_list_of_answers(answers))) :
          LET f == task[t].futs[s]
              c == batch_exchange_ready(Ctx(task[t], f, cache, fake),
                                        Ok(Response(f.msg, answers, cl)), pick)
          IN  Apply(t, Outcome(Settle(task[t], s, c), c))

\* a variant in which the first error of a client ends the batch
ClientErr_first_error(t, s, cl) ==
    /\ task[t].pc = "running"
    /\ task[t].futs[s].st = "batch"
    /\ cl \in task[t].futs[s].pending
    /\ LET f == [task[t].futs[s] EXCEPT !.pending = @ \ {cl},
                                        !.failed = Append(@, cl)]
           c == batch_exchange_ready(Ctx(task[t], f, cache, fake),
                                     ErrBy("upstream error", cl), 1)
       IN  Apply(t, Outcome(Settle(task[t], s, c), c))

\* the call to client cl of future s of task t fails; select_ok goes on
\* with the remaining clients and returns this error when none is left
ClientErr(t, s, cl) ==
    /\ task[t].pc = "running"
    /\ task[t].futs[s].st = "batch"
    /\ cl \in task[t].futs[s].pending
    /\ LET f == [task[t].futs[s] EXCEPT !.pending = @ \ {cl},
                                        !.failed = Append(@, cl)]
           c0 == Ctx(task[t], f, cache, fake)
           c == IF f.pending = {}
                THEN batch_exchange_ready(c0, ErrBy("upstream error", cl), 1)
                ELSE c0
       IN  Apply(t, Outcome(Settle(task[t], s, c), c))

\* a variant whose deadline can expire at any time
BatchDeadline_any_time(t, s) ==
    /\ task[t].pc = "running"
    /\ task[t].futs[s].st = "batch"
    /\ LET c == batch_exchange_ready(Ctx(task[t], task[t].futs[s], cache, fake),
                                     Err("DNS query timeout"), 1)
       IN  Apply(t, Outcome(Settle(task[t], s, c), c))

\* the deadline of the batch of future s of task t expires
BatchDeadline(t, s) ==
    /\ task[t].pc = "running"
    /\ task[t].futs[s].st = "batch"
    /\ task[t].futs[s].elapsed >= BatchTimeout
    /\ LET c == batch_exchange_ready(Ctx(task[t], task[t].futs[s], cache, fake),
                                     Err("DNS query timeout"), 1)
       IN  Apply(t, Outcome(Settle(task[t], s, c), c))

AgeFut(f) ==
    IF f.st = "batch"
    THEN [f EXCEPT !.elapsed = Min(@ + Quantum, BatchTimeout)]
    ELSE f

AgeTask(tk) ==
    [tk EXCEPT !.futs = <<AgeFut(tk.futs[1]), AgeFut(tk.futs[2])>>,
               !.since = IF tk.pc = "done" /\ tk.op = "exchange"
                         THEN Min(@ + Quantum, TTL) ELSE @,
               !.fetched = IF tk.pc = "done" /\ tk.op = "exchange"
                           THEN Min(@ + Quantum, TTL) ELSE @]

\* Quantum seconds pass
Tick ==
    /\ cache' = [i \in DOMAIN cache |->
                    [cache[i] EXCEPT !.age = Min(@ + Quantum, TTL)]]
    /\ task' = [t \in Tasks |-> AgeTask(task[t])]
    /\ UNCHANGED <<r, ipv6, fake, env, app>>

\* ------------------------------------------------------------------------
\* Specification of the exchange API
\* ------------------------------------------------------------------------
Policy == {[domain |-> dnsGoogle, ns |-> "p1"]}

ExchangeConfigs ==
    { [BaseConfig EXCEPT !.fallback = fb, !.domain = dm, !.nameserver_policy = po,
                         !.ip_cidr = f.cidr, !.geo_ip = f.geo] :
        fb \in {<<>>, <<"f1">>}, dm \in {{}, {baiduCn}}, po \in {{}, Policy},
        f \in { [cidr |-> None, geo |-> FALSE],
                [cidr |-> Some(<<Cidr24>>), geo |-> FALSE] } }

QIn(labels, type) == Query(Name(labels, TRUE), "IN", type)

ExchangeQueries ==
    { QIn(aTest, "A"), QIn(aTest, "TXT"),
      QIn(dnsGoogle, "AAAA"), QIn(dnsGoogle, "TXT"),
      QIn(baiduCn, "A"), QIn(baiduCn, "TXT"),
      QIn(acmeTest, "TXT"), QIn(acmeTest, "A"),
      Query(Name(aTest, TRUE), "CH", "A") }

ExchangeAnswers ==
    { <<>>, <<WithTtl(RecA(ipCidr), 5)>>, <<RecCNAME, RecA(ipPlain)>> }

ResolveAnswers ==
    { <<>>, <<RecA(ipPlain), RecA(ipZero)>>, <<RecAAAA(ip6Plain)>> }

\* the messages a caller passes to exchange in a run about question q
Questions ==
    CASE env.api = "exchange" ->
            {Request(<<>>), Request(<<env.subject>>),
             Request(<<env.subject, QIn(aTest, "AAAA")>>)}
      [] env.api = "lru" -> {Request(<<env.subject>>), Request(<<QIn(aTest, "A")>>)}
      [] env.api = "shared" -> {Request(<<env.subject>>), Request(<<QIn(ATest, "A")>>)}
      [] env.api = "geo" -> {Request(<<env.subject>>)}
      [] OTHER -> {}

ExchangeEnvs == { [api |-> "exchange", subject |-> q] : q \in ExchangeQueries }

Init ==
    /\ \E cfg \in ExchangeConfigs : r \in {New(cfg), NewDefault(cfg)} /\ ipv6 = cfg.ipv6
    /\ cache = <<>>
    /\ fake = <<>>
    /\ env \in ExchangeEnvs
    /\ task = [t \in Tasks |-> IdleTask]
    /\ app = IdleApp

\* the answer sections the upstream servers of a run return
SharedAnswers == { <<RecA(ipPlain)>>, <<RecA(ipCidr)>> }

\* answers whose first address is in the configured subnet, in the
\* geo_ip_code country, in neither
GeoAnswers == { <<RecA(ipCidr)>>, <<RecA(ipGeo)>>, <<RecA(ipPlain)>> }

Answers ==
    CASE env.api = "exchange" -> ExchangeAnswers
      [] env.api = "shared" -> SharedAnswers
      [] env.api = "geo" -> GeoAnswers
      [] OTHER -> ResolveAnswers

Upstream ==
    \E t \in Tasks, s \in 1..2 :
        \/ \E cl \in task[t].futs[s].pending, a \in Answers : ClientOk(t, s, cl, a)
        \/ \E cl \in task[t].futs[s].pending : ClientErr(t, s, cl)
        \/ BatchDeadline(t, s)

Next ==
    \/ \E t \in Tasks, m \in Questions : Exchange(t, m)
    \/ Upstream
    \/ Tick

Spec == Init /\ [][Next]_vars

\* ------------------------------------------------------------------------
\* Specification of the resolve API
\* ------------------------------------------------------------------------
HostsTable == [h \in {h4Lan, h6Lan} |-> IF h = h4Lan THEN ipHost4 ELSE ip6Plain]

ResolveConfigs ==
    { [BaseConfig EXCEPT !.ipv6 = v6, !.hosts = f.hosts, !.enhance_mode = f.mode,
                         !.nameserver = <<"m1">>, !.fake_ip_filter = {xLocal}] :
        v6 \in BOOLEAN,
        f \in { [hosts |-> None, mode |-> "off"],
                [hosts |-> Some(HostsTable), mode |-> "fake-ip"] } }

ResolveHosts == {lit4, lit4Zero, lit6, h4Lan, h6Lan, aTest, xLocal}

ResolveEnvs == { [api |-> "resolve", subject |-> h] : h \in ResolveHosts }

\* the host strings a caller passes to resolve in a run about host h
Hosts == IF env.api = "resolve" THEN {env.subject} ELSE {}

InitResolve ==
    /\ \E cfg \in ResolveConfigs : r = New(cfg) /\ ipv6 = cfg.ipv6
    /\ cache = <<>>
    /\ fake = <<>>
    /\ env \in ResolveEnvs
    /\ task = [t \in Tasks |-> IdleTask]
    /\ app = IdleApp

NextResolve ==
    \/ \E t \in Tasks, h \in Hosts, e \in BOOLEAN : Resolve(t, h, e)
    \/ \E t \in Tasks, h \in Hosts, e \in BOOLEAN : ResolveV4(t, h, e)
    \/ \E t \in Tasks, h \in Hosts, e \in BOOLEAN : ResolveV6(t, h, e)
    \/ \E b \in BOOLEAN : SetIpv6(b)
    \/ Upstream
    \/ Tick

SpecResolve == InitResolve /\ [][NextResolve]_vars

\* ------------------------------------------------------------------------
\* Specification of the fake-IP calls: enhanced resolve and resolve_v4,
\* and reverse_lookup, on a resolver in fake-ip mode
\* ------------------------------------------------------------------------
FakeIpConfig ==
    [BaseConfig EXCEPT !.hosts = Some(HostsTable), !.enhance_mode = "fake-ip",
                       !.nameserver = <<"m1">>, !.fake_ip_filter = {xLocal}]

FakeIpHosts == {aTest, baiduCn, dnsGoogle, h4Lan, lit4}

ReverseIps == {V4(198, 18, 0, 2), V4(198, 18, 0, 3), V4(198, 18, 0, 4), ipPlain}

InitFakeIp ==
    /\ r = New(FakeIpConfig) /\ ipv6 = FakeIpConfig.ipv6
    /\ cache = <<>>
    /\ fake = <<>>
    /\ env = [api |-> "fakeip", subject |-> aTest]
    /\ task = [t \in Tasks |-> IdleTask]
    /\ app = IdleApp

NextFakeIp ==
    \/ \E t \in Tasks, h \in FakeIpHosts : Resolve(t, h, TRUE)
    \/ \E t \in Tasks, h \in FakeIpHosts : ResolveV4(t, h, TRUE)
    \/ \E t \in Tasks, ip \in ReverseIps : ReverseLookup(t, ip)

SpecFakeIp == InitFakeIp /\ [][NextFakeIp]_vars

\* ------------------------------------------------------------------------
\* Specification of the exchange API on a full cache: two callers share a
\* resolver that has answered and cached Capacity other questions in
\* the last seconds, oldest first; of these only the oldest is asked again
\* ------------------------------------------------------------------------
CachedQuery(i) == QIn(<<ToString(i), "cached">>, "A")

CachedEntry(i) ==
    [ key |-> to_string(CachedQuery(i)),
      value |-> Response(Request(<<CachedQuery(i)>>), <<RecA(ipPlain)>>, "m1"),
      age |-> 0 ]

InitLru ==
    /\ r = New([BaseConfig EXCEPT !.nameserver = <<"m1">>]) /\ ipv6 = BaseConfig.ipv6
    /\ cache = SelectSeq([i \in 1..Capacity |-> CachedEntry(i)], LAMBDA e : TRUE)
    /\ fake = <<>>
    /\ env = [api |-> "lru", subject |-> CachedQuery(1)]
    /\ task = [t \in Tasks |-> IdleTask]
    /\ app = IdleApp

\* (the steps of a run that is over before an entry or a batch expires)
NextLru ==
    \/ \E t \in Tasks, m \in Questions : Exchange(t, m)
    \/ \E t \in Tasks : \E cl \in task[t].futs[1].pending, a \in Answers :
          ClientOk(t, 1, cl, a)
    \/ \E t \in Tasks : \E cl \in task[t].futs[1].pending : ClientErr(t, 1, cl)

SpecLru == InitLru /\ [][NextLru]_vars

\* ------------------------------------------------------------------------
\* Specification of the exchange API with two callers that share the
\* resolver and ask for one name, in lower case and with a capital
\* ------------------------------------------------------------------------
InitShared ==
    /\ r = New([BaseConfig EXCEPT !.nameserver = <<"m1">>]) /\ ipv6 = BaseConfig.ipv6
    /\ cache = <<>>
    /\ fake = <<>>
    /\ env = [api |-> "shared", subject |-> QIn(aTest, "A")]
    /\ task = [t \in Tasks |-> IdleTask]
    /\ app = IdleApp

NextShared ==
    \/ \E t \in Tasks, m \in Questions : Exchange(t, m)
    \/ Upstream
    \/ Tick

SpecShared == InitShared /\ [][NextShared]_vars

\* ------------------------------------------------------------------------
\* Specification of the exchange API with a fallback, an ip_cidr subnet
\* and geo_ip off
\* ------------------------------------------------------------------------
GeoConfig ==
    [BaseConfig EXCEPT !.nameserver = <<"m1">>, !.fallback = <<"f1">>,
                       !.ip_cidr = Some(<<Cidr24>>), !.geo_ip = FALSE]

InitGeo ==
    /\ r = New(GeoConfig) /\ ipv6 = GeoConfig.ipv6
    /\ cache = <<>>
    /\ fake = <<>>
    /\ env = [api |-> "geo", subject |-> QIn(aTest, "A")]
    /\ task = [t \in Tasks |-> IdleTask]
    /\ app = IdleApp

NextGeo ==
    \/ \E t \in Tasks, m \in Questions : Exchange(t, m)
    \/ Upstream
    \/ Tick

SpecGeo == InitGeo /\ [][NextGeo]_vars

\* ------------------------------------------------------------------------
\* Specification of resolve with set_ipv6 called from other threads
\* ------------------------------------------------------------------------
InitSetIpv6 ==
    /\ r = New([BaseConfig EXCEPT !.ipv6 = TRUE, !.nameserver = <<"m1">>])
    /\ ipv6 = TRUE
    /\ cache = <<>>
    /\ fake = <<>>
    /\ env = [api |-> "resolve", subject |-> aTest]
    /\ task = [t \in Tasks |-> IdleTask]
    /\ app = IdleApp

NextSetIpv6 ==
    \/ \E t \in Tasks, h \in Hosts, e \in BOOLEAN : Resolve(t, h, e)
    \/ \E t \in Tasks, h \in Hosts, e \in BOOLEAN : ResolveAcrossSetIpv6(t, h, e)
    \/ \E b \in BOOLEAN : SetIpv6(b)
    \/ Upstream
    \/ Tick

SpecSetIpv6 == InitSetIpv6 /\ [][NextSetIpv6]_vars

\* ------------------------------------------------------------------------
\* Specification of start() and shutdown().  The runtime polls a woken
\* task and a sender whose receiver is gone is woken: weak fairness.
\* ------------------------------------------------------------------------
InitStart ==
    /\ r = NewDefault(BaseConfig) /\ ipv6 = BaseConfig.ipv6
    /\ cache = <<>>
    /\ fake = <<>>
    /\ env = [api |-> "start", subject |-> <<>>]
    /\ task = [t \in Tasks |-> IdleTask]
    /\ app = IdleApp

NextStart ==
    \/ StartAsync
    \/ InitFails
    \/ \E has_runner \in BOOLEAN : AwaitTasks(has_runner)
    \/ \E ok \in BOOLEAN : RunnerEnds(ok)
    \/ CtrlC
    \/ Poll
    \/ \E th \in Threads : Shutdown(th)
    \/ \E th \in Threads : SendFails(th)

SpecStart ==
    /\ InitStart /\ [][NextStart]_vars
    /\ WF_vars(Poll)
    /\ WF_vars(\E th \in Threads : SendFails(th))

\* ------------------------------------------------------------------------
\* Properties of the exchange API (checked under Spec)
\* ------------------------------------------------------------------------
Asked(t) == Unwrap(query(task[t].msg))

Exchanging(t) == task[t].op = "exchange" /\ IsSome(query(task[t].msg))

PolicyHit(t) ==
    /\ IsSome(r.policy)
    /\ IsSome(TrieSearch(Unwrap(r.policy), Asked(t).name.labels))

PolicyClients(t) == Range(Unwrap(TrieSearch(Unwrap(r.policy), Asked(t).name.labels)))

DomainFilterHit(t) ==
    /\ IsSome(r.fallback_domain_filters)
    /\ \E i \in DOMAIN Unwrap(r.fallback_domain_filters) :
          Asked(t).name.labels \in Unwrap(r.fallback_domain_filters)[i]

\* C1: whenever the resolver has a nameserver policy and the name of the
\* question of an exchange matches a policy entry, every upstream call of
\* that exchange goes to a client of that entry, whether or not a fallback
\* pool or fallback domain filters are configured.
C1_PolicyPrecedence ==
    \A t \in Tasks :
        (Exchanging(t) /\ PolicyHit(t))
            => \A c \in task[t].calls : c.client \in PolicyClients(t)

\* C2 (as claimed): with a fallback pool configured, a question of any
\* type whose name matches a fallback domain filter and no policy entry is
\* sent to fallback clients only.
C2_FallbackOnlyAnyType ==
    \A t \in Tasks :
        (Exchanging(t) /\ IsSome(r.fallback) /\ DomainFilterHit(t) /\ ~PolicyHit(t))
            => \A c \in task[t].calls : c.client \in Range(Unwrap(r.fallback))

\* C2 (amended): with a fallback pool configured, an IP request (class IN,
\* type A or AAAA) whose name matches a fallback domain filter and no
\* policy entry is sent to fallback clients only.
C2_FallbackOnlyIpRequest ==
    \A t \in Tasks :
        (/\ Exchanging(t) /\ IsSome(r.fallback) /\ DomainFilterHit(t) /\ ~PolicyHit(t)
         /\ Asked(t).class = "IN" /\ Asked(t).type \in {"A", "AAAA"})
            => \A c \in task[t].calls : c.client \in Range(Unwrap(r.fallback))

C2_Witness ==
    \E t \in Tasks :
        /\ Exchanging(t) /\ IsSome(r.fallback) /\ DomainFilterHit(t) /\ ~PolicyHit(t)
        /\ Asked(t).class = "IN" /\ Asked(t).type \in {"A", "AAAA"}
        /\ task[t].pc = "done" /\ task[t].res.tag = "ok"
        /\ task[t].calls # {}

FirstIpFiltered(m) ==
    /\ ip_list_of_message(m) # <<>>
    /\ IsSome(r.fallback_ip_filters)
    /\ \E i \in DOMAIN Unwrap(r.fallback_ip_filters) :
          IPFilterApply(Unwrap(r.fallback_ip_filters)[i], ip_list_of_message(m)[1])

BothBatchesOk(t) ==
    /\ Exchanging(t) /\ task[t].pc = "done"
    /\ ~PolicyHit(t) /\ ~DomainFilterHit(t)
    /\ task[t].futs[1].mainRes.tag = "ok"
    /\ task[t].futs[1].fallbackRes.tag = "ok"

\* C3: in ip_exchange with neither a policy nor a domain filter matching,
\* when the main batch and the fallback batch both succeeded and an IP
\* filter is true of the first A/AAAA address of main's answer, the
\* message returned is the answer of the fallback batch.
C3_IpFilterRewrite ==
    \A t \in Tasks :
        (BothBatchesOk(t) /\ FirstIpFiltered(task[t].futs[1].mainRes.val))
            => /\ task[t].res = task[t].futs[1].fallbackRes
               /\ task[t].res.val.from \in Range(Unwrap(r.fallback))

C3_Witness ==
    \E t \in Tasks :
        /\ BothBatchesOk(t)
        /\ FirstIpFiltered(task[t].futs[1].mainRes.val)
        /\ task[t].res.val.answers # task[t].futs[1].mainRes.val.answers

\* a second exchange of the message task t has just been answered, on a
\* resolver with a cache, started less than TTL after the first returned
Repeats(t, m) ==
    /\ Exchange(t, m)
    /\ r.lru_cache
    /\ task[t].pc = "done" /\ task[t].op = "exchange" /\ task[t].msg = m
    /\ Len(m.queries) = 1
    /\ ~(m.queries[1].type = "TXT" /\ starts_with_acme(m.queries[1].name))
    /\ task[t].since < TTL

CacheHit(t) ==
    /\ task'[t].pc = "done"
    /\ task'[t].res = task[t].res
    /\ task'[t].calls = {}

AcmeTxt(q) == q.type = "TXT" /\ starts_with_acme(q.name)

\* C5: the cache never holds an entry for a TXT question whose name begins
\* with _acme-challenge., and every exchange of such a question makes
\* upstream calls.
C5_AcmeTxtNeverCached ==
    /\ [](\A i \in DOMAIN cache, q \in UNION {Range(m.queries) : m \in Questions} :
            AcmeTxt(q) => cache[i].key # to_string(q))
    /\ [][\A t \in Tasks, m \in Questions :
            (Exchange(t, m) /\ IsSome(query(m)) /\ AcmeTxt(Unwrap(query(m))))
                => task'[t].calls # {}]_vars

C5_Witness ==
    \E t \in Tasks :
        /\ r.lru_cache
        /\ Exchanging(t) /\ AcmeTxt(Asked(t))
        /\ task[t].pc = "running" /\ task[t].calls # {}
        /\ task[t].fetched < TTL

\* C10: an exchange of a message with no question or with more than one
\* question ends with the invalid-query error and touches neither the
\* cache nor an upstream.
C10_QuestionCount ==
    \A t \in Tasks :
        (task[t].op = "exchange" /\ Len(task[t].msg.queries) # 1)
            => /\ task[t].pc = "done"
               /\ task[t].res = Err("invalid query")
               /\ task[t].touched = {}
               /\ task[t].calls = {}

\* the main batch of an ip_exchange that has a fallback pool and neither a
\* policy nor a domain filter match is outstanding
MainOutstanding(t) ==
    /\ Exchanging(t) /\ is_ip_request(Asked(t))
    /\ IsSome(r.fallback) /\ ~PolicyHit(t) /\ ~DomainFilterHit(t)
    /\ task[t].pc = "running"
    /\ task[t].futs[1].pending \cap Range(r.main) # {}

\* C11: in ip_exchange with a fallback pool and neither policy nor domain
\* filter matching, the fallback clients have been called while the main
\* batch is still outstanding.
C11_FallbackRaced ==
    \A t \in Tasks :
        MainOutstanding(t)
            => \E c \in task[t].calls : c.client \in Range(Unwrap(r.fallback))

\* C12: an exchange returns an error only when no pool produced a
\* successful answer: not when the main batch or the fallback batch of
\* ip_exchange returned Ok.
C12_ErrorOnlyIfAllFailed ==
    \A t \in Tasks :
        (Exchanging(t) /\ task[t].pc = "done" /\ task[t].res.tag = "err")
            => /\ task[t].futs[1].mainRes.tag # "ok"
               /\ task[t].futs[1].fallbackRes.tag # "ok"

\* the clients of the batch a finished future ran last
PoolOf(f) ==
    CASE f.stage = "policy" -> Unwrap(match_policy(f.msg))
      [] f.stage \in {"main", "main_then_fallback"} -> r.main
      [] OTHER -> Unwrap(r.fallback)

LastBatch(t, s) ==
    task[t].futs[s].st = "done" /\ task[t].futs[s].returned > 0

BatchOkIsFirstSuccess(f) ==
    f.batchRes.tag = "ok"
        => f.batchRes.val.from \in Range(PoolOf(f)) \ Range(f.failed)

AllFailedLastError(f) ==
    /\ Range(f.failed) = Range(PoolOf(f))
    /\ f.batchRes = ErrBy("upstream error", f.failed[Len(f.failed)])

\* C13 (as claimed): a batch returns the answer of the client that
\* succeeded first, whatever clients failed before; it returns an error
\* only if every client failed, and then the error of the client that
\* failed last.
C13_BatchResult ==
    \A t \in Tasks, s \in 1..2 :
        LastBatch(t, s)
            => /\ BatchOkIsFirstSuccess(task[t].futs[s])
               /\ task[t].futs[s].batchRes.tag = "err"
                      => AllFailedLastError(task[t].futs[s])

\* C13 (amended): the same, except that a batch also returns an error,
\* the DNS timeout, when its deadline expires with a client outstanding.
C13_BatchResultOrTimeout ==
    \A t \in Tasks, s \in 1..2 :
        LastBatch(t, s)
            => /\ BatchOkIsFirstSuccess(task[t].futs[s])
               /\ task[t].futs[s].batchRes.tag = "err"
                      => \/ AllFailedLastError(task[t].futs[s])
                         \/ /\ task[t].futs[s].batchRes = Err("DNS query timeout")
                            /\ Range(task[t].futs[s].failed) # Range(PoolOf(task[t].futs[s]))

C13_Witness ==
    \E t \in Tasks :
        /\ LastBatch(t, 1)
        /\ task[t].futs[1].batchRes.tag = "ok"
        /\ task[t].futs[1].failed # <<>>

\* the batch of future s of task t returns in this step
BatchReturns(t, s) ==
    /\ task[t].pc = "running" /\ task[t].futs[s].st = "batch"
    /\ task'[t].futs[s].returned = task[t].futs[s].returned + 1

MainAccepted(t) ==
    /\ Exchanging(t) /\ is_ip_request(Asked(t))
    /\ IsSome(r.fallback) /\ ~PolicyHit(t) /\ ~DomainFilterHit(t)
    /\ task[t].futs[1].mainRes.tag = "ok"
    /\ ~FirstIpFiltered(task[t].futs[1].mainRes.val)

\* C21: when the main batch of such an ip_exchange succeeded and no IP
\* filter is true of the first A/AAAA address of its answer, an answer
\* without A/AAAA records included, the exchange is over and the message
\* it returned is main's answer.
C21_MainKept ==
    \A t \in Tasks :
        MainAccepted(t)
            => /\ task[t].pc = "done"
               /\ task[t].res = task[t].futs[1].mainRes

\* the unexpired entry of the cache for the first question of m, if any
Fresh(m) ==
    {i \in DOMAIN cache :
        cache[i].key = to_string(Unwrap(query(m))) /\ cache[i].age < TTL}

\* C23: an exchange on a resolver with a cache is answered from the cache
\* exactly when the entry of its question was inserted less than 60 s
\* ago, whatever the TTLs of the answer; the hit leaves the entry and its
\* age as they are; otherwise the exchange goes upstream.
C23_FixedExpiry ==
    [][\A t \in Tasks, m \in Questions :
          (Exchange(t, m) /\ r.lru_cache /\ IsSome(query(m)))
              => IF Fresh(m) # {}
                 THEN /\ task'[t].pc = "done"
                      /\ \E i \in Fresh(m) : task'[t].res = Ok(cache[i].value)
                      /\ task'[t].calls = {}
                      /\ cache' = cache
                 ELSE /\ task'[t].pc = "running"
                      /\ task'[t].calls # {}]_vars

\* an answer whose TTL is 5 s is served from the cache 40 s after it was
\* inserted
C23_Witness ==
    \E t \in Tasks, i \in DOMAIN cache :
        /\ Exchanging(t) /\ task[t].pc = "done" /\ task[t].calls = {}
        /\ task[t].res = Ok(cache[i].value)
        /\ cache[i].key = to_string(Asked(t))
        /\ cache[i].age > 5 /\ cache[i].age < TTL
        /\ \E k \in DOMAIN cache[i].value.answers : cache[i].value.answers[k].ttl = 5
        /\ task[t].since = 0

\* the entries of the cache, whatever their age
Entries(c) == {[key |-> c[i].key, value |-> c[i].value] : i \in DOMAIN c}

\* C30: an exchange that ends in an error leaves the cache as it was, and so
\* does an exchange that ends without a call to a client (a hit, a message
\* without a question); the entries of the cache change only in a step
\* in which an exchange returns the answer of its batch, and the one entry
\* added is that answer under the key of the question asked; every entry
\* is the answer to a message that has a question, under the key of that
\* question.
C30_CacheFrame ==
    /\ [][\A t \in Tasks :
            (/\ task[t].pc = "running" /\ task'[t].pc = "done"
             /\ task[t].op = "exchange" /\ task'[t].res.tag = "err")
                => cache' = cache]_vars
    /\ [][\A t \in Tasks, m \in Questions :
            (Exchange(t, m) /\ task'[t].pc = "done") => cache' = cache]_vars
    /\ [][Entries(cache') # Entries(cache)
            => \E t \in Tasks :
                  /\ task[t].pc = "running" /\ task'[t].pc = "done"
                  /\ Exchanging(t) /\ task'[t].res.tag = "ok"
                  /\ Entries(cache') \ Entries(cache)
                        = {[key |-> to_string(Asked(t)),
                            value |-> task'[t].res.val]}]_vars
    /\ [](\A i \in DOMAIN cache :
             \E m \in Questions :
                 /\ IsSome(query(m))
                 /\ cache[i].key = to_string(Unwrap(query(m)))
                 /\ cache[i].value.queries = m.queries)

\* an exchange whose clients all failed is over, and the cache still holds
\* the entry of an earlier answer
C30_Witness ==
    \E t \in Tasks :
        /\ Exchanging(t) /\ task[t].pc = "done"
        /\ task[t].res.tag = "err" /\ task[t].calls # {}
        /\ cache # <<>>

\* ------------------------------------------------------------------------
\* Properties of the resolve API (checked under SpecResolve)
\* ------------------------------------------------------------------------
Resolving(t) == task[t].op = "resolve" /\ task[t].pc # "idle"

\* C6: resolve of an IPv4 literal returns that address for either value of
\* enhanced and of the ipv6 flag, and starts no upstream exchange.
C6_LiteralPassthrough ==
    \A t \in Tasks :
        (Resolving(t) /\ ParseIpv4(task[t].host).tag = "ok")
            => /\ task[t].pc = "done"
               /\ task[t].res = Ok(Some(ParseIpv4(task[t].host).val))
               /\ task[t].calls = {}

\* C7: resolve(h, true) with a hosts entry for h of either family returns
\* the hosts value for either value of the ipv6 flag, fake-IP enabled or
\* not; it does not panic.
C7_HostsPrecedence ==
    \A t \in Tasks :
        (/\ Resolving(t) /\ task[t].enhanced
         /\ IsSome(r.hosts) /\ task[t].host \in DOMAIN Unwrap(r.hosts))
            => /\ task[t].pc = "done"
               /\ task[t].res = Ok(Some(Unwrap(r.hosts)[task[t].host]))

\* C8: resolve_v6 called while the ipv6 flag is false returns the
\* "ipv6 disabled" error for every host and value of enhanced, and
\* consults neither hosts nor the cache nor an upstream.
C8_Ipv6Disabled ==
    [][\A t \in Tasks, h \in Hosts, e \in BOOLEAN :
          (ResolveV6(t, h, e) /\ ~ipv6)
              => /\ task'[t].pc = "done"
                 /\ task'[t].res = Err("ipv6 disabled")
                 /\ task'[t].touched = {}
                 /\ task'[t].calls = {}
                 /\ UNCHANGED <<cache, fake>>]_vars

C8_Witness ==
    \E t \in Tasks :
        /\ task[t].op = "resolve_v6" /\ task[t].pc = "done"
        /\ task[t].res = Err("ipv6 disabled")
        /\ task[t].enhanced
        /\ IsSome(r.hosts) /\ task[t].host \in DOMAIN Unwrap(r.hosts)
        /\ ~ipv6

\* C15: no call to an upstream client is outstanding for a future that is
\* not waiting for a batch (its batch returned, or it was dropped) nor for
\* a caller whose call is over; a future that waits for a batch waits only
\* for clients of that batch that have not failed.
C15_Cancellation ==
    \A t \in Tasks, s \in 1..2 :
        /\ task[t].futs[s].st # "batch" => task[t].futs[s].pending = {}
        /\ task[t].pc # "running" => task[t].futs[s].pending = {}
        /\ task[t].futs[s].st = "batch"
              => task[t].futs[s].pending \subseteq
                     Range(PoolOf(task[t].futs[s])) \ Range(task[t].futs[s].failed)

C15_Witness ==
    \E t \in Tasks :
        /\ task[t].op = "resolve" /\ task[t].pc = "done"
        /\ task[t].futs[1].st = "dropped"
        /\ \E c \in task[t].calls : Unwrap(query(c.msg)).type = "AAAA"

NonLiteral(h) == ParseIpv4(h).tag = "err" /\ ParseIpv6(h).tag = "err"

Waiting(f) == f.st = "batch" \/ (f.st = "done" /\ f.res.tag = "err")

\* C16: resolve of a non-literal host with ipv6 enabled has the v6 and the
\* v4 lookup in progress together while it waits; it returns the result of
\* a lookup that succeeded, the v4 one when the v6 one failed, and an
\* error only when both lookups failed.  With ipv6 disabled there is no
\* v6 lookup and no AAAA question is sent.
C16_DualStackRace ==
    \A t \in Tasks :
        (Resolving(t) /\ NonLiteral(task[t].host))
            => IF task[t].futs[1].kind = "v6"
               THEN /\ task[t].pc = "running"
                         => Waiting(task[t].futs[1]) /\ Waiting(task[t].futs[2])
                    /\ (task[t].pc = "done" /\ task[t].res.tag = "err")
                         => \A s \in 1..2 : /\ task[t].futs[s].st = "done"
                                            /\ task[t].futs[s].res.tag = "err"
                    /\ (task[t].pc = "done" /\ task[t].res.tag = "ok")
                         => \E s \in 1..2 : /\ task[t].futs[s].st = "done"
                                            /\ task[t].futs[s].res = task[t].res
                                            /\ task[t].futs[s].res.val[1].fam =
                                                  (IF s = 1 THEN 6 ELSE 4)
                    /\ (/\ task[t].pc = "done"
                        /\ task[t].futs[1].st = "done" /\ task[t].futs[1].res.tag = "err"
                        /\ task[t].futs[2].st = "done" /\ task[t].futs[2].res.tag = "ok")
                         => task[t].res = task[t].futs[2].res
               ELSE /\ task[t].futs[1] = IdleFut
                    /\ \A c \in task[t].calls : Unwrap(query(c.msg)).type # "AAAA"

C16_Witness ==
    \E t \in Tasks :
        /\ Resolving(t) /\ NonLiteral(task[t].host) /\ task[t].pc = "done"
        /\ task[t].futs[1].kind = "v6"
        /\ task[t].futs[1].st = "done" /\ task[t].futs[1].res.tag = "err"
        /\ task[t].futs[1].returned > 0
        /\ task[t].futs[2].returned > 0
        /\ task[t].res = Ok(Some(ipPlain))

LiteralValue(h) ==
    IF ParseIpv4(h).tag = "ok" THEN ParseIpv4(h).val ELSE ParseIpv6(h).val

\* C19: resolve of a host string that is an IP literal of either family
\* returns that address at once, whatever the ipv6 flag, the hosts table
\* and the fake-IP mode; hosts and the fake-IP engine are not consulted
\* and nothing is sent upstream.
C19_LiteralFirst ==
    \A t \in Tasks :
        (Resolving(t) /\ ~NonLiteral(task[t].host))
            => /\ task[t].pc = "done"
               /\ task[t].res = Ok(Some(LiteralValue(task[t].host)))
               /\ task[t].touched \cap {"hosts", "fake"} = {}
               /\ task[t].calls = {}

\* resolve(host, true) on a resolver with fake-IP, for a host that is no
\* literal, has no hosts entry and is not skipped
FakeIpCase(t) ==
    /\ Resolving(t) /\ task[t].enhanced /\ fake_ip_enabled
    /\ NonLiteral(task[t].host)
    /\ ~(IsSome(r.hosts) /\ task[t].host \in DOMAIN Unwrap(r.hosts))
    /\ ~should_skip(task[t].host)

\* C20: such a call returns the fake address of the host, for either
\* value of the ipv6 flag and any cache content.
C20_FakeIpStep ==
    \A t \in Tasks :
        FakeIpCase(t)
            => /\ task[t].pc = "done"
               /\ task[t].res = Ok(Some(fake_lookup(fake, task[t].host)))

\* C9: resolve never returns the unspecified address, on the literal path
\* and on the lookup path alike.
C9_NeverUnspecified ==
    \A t \in Tasks :
        (task[t].op = "resolve" /\ task[t].pc = "done" /\ task[t].res.tag = "ok")
            => ~is_unspecified(Unwrap(task[t].res.val))

\* future s of task t is a resolve_v4 or resolve_v6 whose exchange returned
\* a message
LookedUp(t, s) ==
    /\ task[t].futs[s].kind \in {"v4", "v6"}
    /\ task[t].futs[s].st = "done"
    /\ task[t].futs[s].exchanged.tag = "ok"

\* C26: when the exchange of a resolve_v4 or resolve_v6 returned a message
\* without A/AAAA records, from upstream or from the cache, the call
\* returns the "no record" error; a call that returns Ok returns an
\* address, one of those of the message when it looked one up.
C26_NoRecordIsError ==
    \A t \in Tasks, s \in 1..2 :
        /\ LookedUp(t, s)
              => IF ip_list_of_message(task[t].futs[s].exchanged.val) = <<>>
                 THEN task[t].futs[s].res = Err("no record for hostname")
                 ELSE task[t].futs[s].res.tag = "ok"
                         => /\ IsSome(task[t].futs[s].res.val)
                            /\ Unwrap(task[t].futs[s].res.val) \in
                                  Range(ip_list_of_message(task[t].futs[s].exchanged.val))
        /\ (task[t].futs[s].st = "done" /\ task[t].futs[s].res.tag = "ok")
              => IsSome(task[t].futs[s].res.val)
        /\ (task[t].op \in {"resolve_v4", "resolve_v6"} /\ LookedUp(t, s))
              => task[t].pc = "done" /\ task[t].res = task[t].futs[s].res

\* resolve_v4 found an answer without addresses in the cache
C26_Witness ==
    \E t \in Tasks :
        /\ task[t].op = "resolve_v4" /\ LookedUp(t, 2)
        /\ task[t].calls = {}
        /\ task[t].res = Err("no record for hostname")

\* C27: a resolve_v4 that is over returned an IPv4 address or an error and
\* a resolve_v6 an IPv6 address or an error, whatever records the answer
\* carries and whatever the family of the hosts entry; neither reaches an
\* unreachable!.
C27_NoPanicFamilyConsistent ==
    \A t \in Tasks, s \in 1..2 :
        (task[t].futs[s].kind \in {"v4", "v6"} /\ task[t].futs[s].st = "done")
            => /\ task[t].futs[s].res.tag # "panic"
               /\ task[t].futs[s].res.tag = "ok"
                     => Unwrap(task[t].futs[s].res.val).fam =
                           (IF task[t].futs[s].kind = "v4" THEN 4 ELSE 6)

\* C29: a future holds no guard of the cache's lock or of the fake-IP
\* engine's lock while a call to an upstream client is outstanding for
\* it, nor in any other state in which it is suspended or over.
C29_NoLockAcrossUpstream ==
    \A t \in Tasks, s \in 1..2 :
        /\ task[t].futs[s].pending # {} => task[t].futs[s].held = {}
        /\ task[t].futs[s].held = {}

\* resolve_v4 of a skipped host consulted the fake-IP engine and waits for
\* the answer of a client
C29_Witness ==
    \E t \in Tasks :
        /\ task[t].pc = "running" /\ task[t].enhanced
        /\ fake_ip_enabled /\ should_skip(task[t].host)
        /\ task[t].futs[2].kind = "v4" /\ task[t].futs[2].pending # {}
        /\ {"fake", "cache", "upstream"} \subseteq task[t].touched
        /\ task[t].futs[2].held = {}

\* C25: a resolve that found the ipv6 flag true runs the v6 lookup, which
\* does not fail with "ipv6 disabled", whatever set_ipv6 is called
\* meanwhile; a resolve that found the flag false sends no AAAA question.
C25_FlagObservedOnce ==
    \A t \in Tasks :
        Resolving(t)
            => IF task[t].futs[1].kind = "v6"
               THEN task[t].futs[1].res # Err("ipv6 disabled")
               ELSE \A c \in task[t].calls : Unwrap(query(c.msg)).type # "AAAA"

\* ------------------------------------------------------------------------
\* Properties of the fake-IP calls (checked under SpecFakeIp)
\* ------------------------------------------------------------------------
\* resolve_v4(h, true) has returned for a host h that is no literal, has
\* no hosts entry and is not skipped
MintedBy(t) ==
    /\ task[t].op = "resolve_v4" /\ task[t].pc = "done"
    /\ task[t].enhanced /\ fake_ip_enabled
    /\ NonLiteral(task[t].host)
    /\ ~(IsSome(r.hosts) /\ task[t].host \in DOMAIN Unwrap(r.hosts))
    /\ ~should_skip(task[t].host)

\* what resolve_v4(h, true) returns in the current state
ResolveV4Now(h) ==
    resolve_v4(Ctx(IdleTask, NewFut("v4"), cache, fake), h, TRUE, 1).fut.res

ShutdownCalled(th) == app.sd[th].pc = "done" /\ app.sd[th].running

\* C18 (as claimed): such a call returned true, and start() returns
\* nothing but Ok(()).
C18_ShutdownGivesOk ==
    \A th \in Threads :
        ShutdownCalled(th)
            => /\ app.sd[th].ok
               /\ app.pc = "returned" => app.res = Ok(NoValue)

\* C18 (amended): such a call returned true unless the TUN or API runner
\* has terminated or start() took the message of another call; after it returned true start() eventually returns, and
\* with Ok(()) unless that runner terminated with an error; start() does
\* not stop awaiting its tasks before a shutdown message, Ctrl-C or the
\* termination of a runner.
C18_ShutdownLiveness ==
    /\ [](\A th \in Threads :
            ShutdownCalled(th)
                => /\ ~app.sd[th].ok
                         => app.runner \in {"ended", "failed"} \/ app.received
                   /\ (app.pc = "returned" /\ app.res # Ok(NoValue))
                         => app.runner = "failed")
    /\ \A th \in Threads :
          (ShutdownCalled(th) /\ app.sd[th].ok) ~> (app.pc = "returned")
    /\ [][(app.pc = "running" /\ app'.pc = "returned")
             => \/ app.chan > 0
                \/ app.ctrl_c
                \/ app.runner \in {"ended", "failed"}]_vars

C18_Witness ==
    \E th \in Threads :
        /\ ShutdownCalled(th) /\ app.sd[th].ok
        /\ app.pc = "returned" /\ app.res = Ok(NoValue)
        /\ app.received /\ ~app.ctrl_c /\ app.runner = "running"

\* ------------------------------------------------------------------------
\* Properties of the cache at capacity (checked under SpecLru)
\* ------------------------------------------------------------------------
KeyIn(c, key) == \E i \in DOMAIN c : c[i].key = key

\* the last call of task t was a cache hit for key
JustRead(t, key) ==
    /\ Exchanging(t) /\ task[t].pc = "done"
    /\ task[t].res.tag = "ok" /\ task[t].calls = {}
    /\ to_string(Asked(t)) = key

\* an entry that no caller of the run asks for: neither read nor written
\* since the run began
Unused(e) == \A m \in Questions : to_string(Unwrap(query(m))) # e.key

\* C22: a cache hit makes the entry the most recently used one: an insert
\* at capacity does not evict an entry that a caller has read while it
\* keeps an entry that was neither read nor written since.
C22_ReadsUpdateRecency ==
    [][\A t \in Tasks :
          (/\ JustRead(t, to_string(Asked(t)))
           /\ \E i \in DOMAIN cache :
                 cache[i].key = to_string(Asked(t)) /\ ~expired(cache[i])
           /\ ~KeyIn(cache', to_string(Asked(t))))
              => ~\E j \in DOMAIN cache :
                     Unused(cache[j]) /\ KeyIn(cache', cache[j].key)]_vars

\* ------------------------------------------------------------------------
\* Properties of callers that share the resolver (checked under SpecShared)
\* ------------------------------------------------------------------------
LowerCase == [x \in {"A"} |-> "a"]

Lowered(labels) ==
    [i \in DOMAIN labels |->
        IF labels[i] \in DOMAIN LowerCase THEN LowerCase[labels[i]] ELSE labels[i]]

\* the entry was stored for a question of the class and type of q whose
\* name is that of q up to letter case
SameQuestion(e, q) ==
    /\ Lowered(e.key[1]) = Lowered(q.name.labels)
    /\ e.key[2] = q.name.fqdn
    /\ e.key[3] = q.class /\ e.key[4] = q.type

\* C24: an exchange is a cache hit whenever the cache holds an unexpired
\* entry for a question of the same class and type whose name differs from
\* the name asked in letter case at most.
C24_KeyIsNormalizedQuestion ==
    [][\A t \in Tasks, m \in Questions :
          (/\ Exchange(t, m) /\ r.lru_cache /\ IsSome(query(m))
           /\ \E i \in DOMAIN cache :
                 ~expired(cache[i]) /\ SameQuestion(cache[i], Unwrap(query(m))))
              => /\ task'[t].pc = "done"
                 /\ task'[t].calls = {}
                 /\ \E i \in DOMAIN cache :
                       /\ SameQuestion(cache[i], Unwrap(query(m)))
                       /\ task'[t].res = Ok(cache[i].value)]_vars

\* task t went upstream for its question and got a message
Fetched(t) ==
    /\ Exchanging(t) /\ task[t].pc = "done"
    /\ task[t].res.tag = "ok" /\ task[t].calls # {}

\* C28: an exchange of a question that is not in the cache sends its own
\* batch, also while a batch of another task for that question is
\* outstanding; the answer a client gives to the batch of a task is what
\* that task returns and what the cache holds for the question right
\* after; the cache never holds two entries for a key; when all tasks
\* have fetched the same question, its entry is the answer fetched last;
\* a task that is not done waits for a client and for nothing else.
C28_LastWriterWins ==
    /\ [][\A t \in Tasks, m \in Questions :
            (Exchange(t, m) /\ Fresh(m) = {})
                => /\ task'[t].pc = "running"
                   /\ task'[t].futs[1].pending = Range(r.main)
                   /\ \A o \in Tasks \ {t} : task'[o] = task[o]]_vars
    /\ [][\A t \in Tasks, a \in Answers :
            \A cl \in task[t].futs[1].pending :
                ClientOk(t, 1, cl, a)
                    => /\ task'[t].res = Ok(Response(task[t].msg, a, cl))
                       /\ peek(cache', to_string(Asked(t))) = Some(task'[t].res.val)]_vars
    /\ [](\A i, j \in DOMAIN cache : cache[i].key = cache[j].key => i = j)
    /\ []((\A t \in Tasks : Fetched(t) /\ task[t].msg = Request(<<env.subject>>))
             => \E i \in DOMAIN cache, t \in Tasks :
                   /\ cache[i].key = to_string(env.subject)
                   /\ cache[i].value = task[t].res.val
                   /\ \A o \in Tasks : task[t].fetched <= task[o].fetched)
    /\ [](\A t \in Tasks :
             task[t].pc = "running" => task[t].futs[1].pending # {})

\* two tasks missed on the same question together, got different answers,
\* and the cache holds the one of them
C28_Witness ==
    /\ \A t \in Tasks : Fetched(t) /\ task[t].msg = Request(<<env.subject>>)
    /\ \A t \in Tasks : task[t].fetched = 0
    /\ task["t1"].res # task["t2"].res
    /\ Len(cache) = 1
    /\ cache[1].value = task["t1"].res.val

\* ------------------------------------------------------------------------
\* Properties of the IP filters with geo_ip off (checked under SpecGeo)
\* ------------------------------------------------------------------------
\* the address lies in one of the subnets of ip_cidr
InSubnets(cfg, ip) ==
    /\ IsSome(cfg.ip_cidr)
    /\ \E i \in DOMAIN Unwrap(cfg.ip_cidr) :
          IPFilterApply(IPNetFilter(Unwrap(cfg.ip_cidr)[i]), ip)

\* C31: with geo_ip off and ip_cidr subnets configured, an exchange whose
\* main batch answered with a first address that lies in none of the
\* subnets returns the answer of the main batch, whatever the country of
\* that address (the CIDR filters being the only ones consulted).
C31_GeoIpOnlyWhenEnabled ==
    \A t \in Tasks :
        (/\ ~GeoConfig.geo_ip
         /\ Exchanging(t) /\ task[t].pc = "done"
         /\ task[t].futs[1].mainRes.tag = "ok"
         /\ ip_list_of_message(task[t].futs[1].mainRes.val) # <<>>
         /\ ~InSubnets(GeoConfig, ip_list_of_message(task[t].futs[1].mainRes.val)[1]))
            => task[t].res = task[t].futs[1].mainRes
====
